---- MODULE Spec2Model ----
(***************************************************************************)
(* Model of the device-registration form of src/App.tsx: the session       *)
(* state held by the App component (fullName, currentIp, status,           *)
(* errorMessage), the identity lookup fetchIp, the submit handler          *)
(* handleRegister, the "Register another device" button, and the two       *)
(* network round trips.  Each event handler / promise continuation runs    *)
(* to completion on the single-threaded event loop and is one action.      *)
(***************************************************************************)
EXTENDS Integers, Sequences, FiniteSets, TLC

(* ---- bounds ---- *)
MaxNameLen == 2
MaxPosts == 2

(* ---- JavaScript values: a tag and a printed value ---- *)
JsNull == [t |-> "null", v |-> ""]
JsUndefined == [t |-> "undefined", v |-> ""]
JsStr(s) == [t |-> "string", v |-> s]
JsNum(s) == [t |-> "number", v |-> s]

\* a !== b is the negation of StrictEq: same type and same value
StrictEq(a, b) == a.t = b.t /\ a.v = b.v

\* neither null nor undefined
Present(a) == a.t \notin {"null", "undefined"}

(* ---- configuration (./constants) and environment ---- *)
OFFICE_IP == JsStr("203.0.113.5")
OtherIp == JsStr("10.0.0.9")
USER_AGENT == "ua"

(* ---- the four messages the component can show (the policy message is
   written here without its diacritics) ---- *)
MsgLookup == JsStr("Could not verify your network connection.")
MsgName == JsStr("Please enter your full name.")
MsgPolicy == JsStr("Vui long dung Wifi OAC")
MsgSubmit == JsStr("An error occurred during registration. Please try again.")

(* ---- names: strings over a letter and a blank ---- *)
Chars == {"a", " "}
Names == UNION {[1..n -> Chars] : n \in 0..MaxNameLen}

IsSpace(c) == c = " "

RECURSIVE TrimStart(_)
TrimStart(s) == IF s # <<>> /\ IsSpace(Head(s)) THEN TrimStart(Tail(s)) ELSE s

RECURSIVE TrimEnd(_)
TrimEnd(s) == IF s # <<>> /\ IsSpace(s[Len(s)]) THEN TrimEnd(SubSeq(s, 1, Len(s) - 1)) ELSE s

\* String.prototype.trim
Trim(s) == TrimEnd(TrimStart(s))

(* ---- what the identity service can answer ---- *)
IpFieldValues == {OFFICE_IP, OtherIp, JsUndefined, JsNull, JsNum("5")}

\* network_error: fetch rejects; not_ok: response.ok is false; bad_json:
\* response.json() rejects; null_body: the body parses to null, so data.ip
\* throws; object: the body parses to a value whose ip property is r.ip
\* (undefined when it has none)
Responses ==
    {[kind |-> k, ip |-> JsUndefined] : k \in {"network_error", "not_ok", "bad_json", "null_body"}}
        \cup {[kind |-> "object", ip |-> v] : v \in IpFieldValues}

VARIABLES
    fullName,      \* useState('')
    currentIp,     \* useState<string | null>(null)
    status,        \* useState<AppStatus>('loading_ip')
    errorMessage,  \* useState<string | null>(null)
    ipCall,        \* the identity lookup: "none", "pending" or "done"
    lookups,       \* number of identity lookups issued
    inflight,      \* webhook POSTs whose promise is still pending
    posts,         \* every webhook POST dispatched so far, in order
    lastEvent      \* the handler or continuation that ran last

vars == <<fullName, currentIp, status, errorMessage, ipCall, lookups, inflight, posts, lastEvent>>

Init ==
    /\ fullName = <<>>
    /\ currentIp = JsNull
    /\ status = "loading_ip"
    /\ errorMessage = JsNull
    /\ ipCall = "none"
    /\ lookups = 0
    /\ inflight = <<>>
    /\ posts = <<>>
    /\ lastEvent = "init"

(* ---- what the render enables ---- *)
\* the form is rendered unless the success panel is
FormRendered == status # "success"

InputDisabled_OnlyLoading == status = "loading_ip"
\* disabled attribute of input#fullName
InputDisabled == status = "submitting" \/ status = "loading_ip"

SubmitDisabled_OnlyLoading == status = "loading_ip"
\* disabled attribute of the submit button
SubmitDisabled == status = "submitting" \/ status = "loading_ip"

(* ---- handleRegister's two checks and its payload ---- *)
NameMissing_NoTrim(name) == name = <<>>
\* !fullName.trim()
NameMissing(name) == Trim(name) = <<>>

WrongNetwork_TypeOnly(ip) == ip.t # OFFICE_IP.t
WrongNetwork_AbsentPasses(ip) == Present(ip) /\ ~StrictEq(ip, OFFICE_IP)
\* currentIp !== OFFICE_IP
WrongNetwork(ip) == ~StrictEq(ip, OFFICE_IP)

BuildPayload_Trimmed(name, ip) == [name |-> Trim(name), userAgent |-> USER_AGENT, ip |-> ip]
BuildPayload(name, ip) == [name |-> name, userAgent |-> USER_AGENT, ip |-> ip]

RemoveAt(s, i) == SubSeq(s, 1, i - 1) \o SubSeq(s, i + 1, Len(s))

(* ---- the identity lookup ---- *)
\* useEffect(() => { fetchIp() }): fetchIp up to its first await
FetchIpStart ==
    /\ ipCall = "none"
    /\ status' = "loading_ip"
    /\ ipCall' = "pending"
    /\ lookups' = lookups + 1
    /\ lastEvent' = "fetch_ip"
    /\ UNCHANGED <<fullName, currentIp, errorMessage, inflight, posts>>

LookupThrows(r) == r.kind # "object"

\* fetchIp after its awaits: the try block's tail or the catch block
FetchIpResolve(r) ==
    /\ ipCall = "pending"
    /\ ipCall' = "done"
    /\ lastEvent' = "ip_result"
    /\ IF LookupThrows(r)
       THEN /\ errorMessage' = MsgLookup
            /\ status' = "error"
            /\ UNCHANGED currentIp
       ELSE /\ currentIp' = r.ip
            /\ status' = "ready"
            /\ UNCHANGED errorMessage
    /\ UNCHANGED <<fullName, lookups, inflight, posts>>

(* ---- user events ---- *)
\* onChange of input#fullName
SetFullName(name) ==
    /\ FormRendered
    /\ ~InputDisabled
    /\ fullName' = name
    /\ lastEvent' = "edit"
    /\ UNCHANGED <<currentIp, status, errorMessage, ipCall, lookups, inflight, posts>>

HandleRegister_KeepsError ==
    /\ FormRendered
    /\ ~SubmitDisabled
    /\ lastEvent' = "submit"
    /\ IF NameMissing(fullName)
       THEN /\ errorMessage' = MsgName
            /\ UNCHANGED <<status, inflight, posts>>
       ELSE IF WrongNetwork(currentIp)
       THEN /\ errorMessage' = MsgPolicy
            /\ UNCHANGED <<status, inflight, posts>>
       ELSE /\ Len(posts) < MaxPosts
            /\ UNCHANGED errorMessage
            /\ status' = "submitting"
            /\ inflight' = Append(inflight, BuildPayload(fullName, currentIp))
            /\ posts' = Append(posts, BuildPayload(fullName, currentIp))
    /\ UNCHANGED <<fullName, currentIp, ipCall, lookups>>
\* onSubmit of the form: handleRegister up to its await
HandleRegister ==
    /\ FormRendered
    /\ ~SubmitDisabled
    /\ lastEvent' = "submit"
    /\ IF NameMissing(fullName)
       THEN /\ errorMessage' = MsgName
            /\ UNCHANGED <<status, inflight, posts>>
       ELSE IF WrongNetwork(currentIp)
       THEN /\ errorMessage' = MsgPolicy
            /\ UNCHANGED <<status, inflight, posts>>
       ELSE /\ Len(posts) < MaxPosts
            /\ errorMessage' = JsNull
            /\ status' = "submitting"
            /\ inflight' = Append(inflight, BuildPayload(fullName, currentIp))
            /\ posts' = Append(posts, BuildPayload(fullName, currentIp))
    /\ UNCHANGED <<fullName, currentIp, ipCall, lookups>>

\* the webhook fetch resolves: handleRegister after its await
WebhookResolve(i) ==
    /\ i \in 1..Len(inflight)
    /\ inflight' = RemoveAt(inflight, i)
    /\ status' = "success"
    /\ lastEvent' = "webhook_ok"
    /\ UNCHANGED <<fullName, currentIp, errorMessage, ipCall, lookups, posts>>

WebhookReject_NoStatus(i) ==
    /\ i \in 1..Len(inflight)
    /\ inflight' = RemoveAt(inflight, i)
    /\ errorMessage' = MsgSubmit
    /\ lastEvent' = "webhook_fail"
    /\ UNCHANGED <<fullName, currentIp, status, ipCall, lookups, posts>>
\* the webhook fetch rejects: handleRegister's catch block
WebhookReject(i) ==
    /\ i \in 1..Len(inflight)
    /\ inflight' = RemoveAt(inflight, i)
    /\ errorMessage' = MsgSubmit
    /\ status' = "ready"
    /\ lastEvent' = "webhook_fail"
    /\ UNCHANGED <<fullName, currentIp, ipCall, lookups, posts>>

Reset_Rechecks ==
    /\ status = "success"
    /\ status' = "loading_ip"
    /\ fullName' = <<>>
    /\ ipCall' = "pending"
    /\ lookups' = lookups + 1
    /\ lastEvent' = "reset"
    /\ UNCHANGED <<currentIp, errorMessage, inflight, posts>>
Reset_KeepsName ==
    /\ status = "success"
    /\ status' = "ready"
    /\ lastEvent' = "reset"
    /\ UNCHANGED <<fullName, currentIp, errorMessage, ipCall, lookups, inflight, posts>>
\* onClick of "Register another device"
Reset ==
    /\ status = "success"
    /\ status' = "ready"
    /\ fullName' = <<>>
    /\ lastEvent' = "reset"
    /\ UNCHANGED <<currentIp, errorMessage, ipCall, lookups, inflight, posts>>

Next ==
    \/ FetchIpStart
    \/ \E r \in Responses : FetchIpResolve(r)
    \/ \E name \in Names : SetFullName(name)
    \/ HandleRegister
    \/ \E i \in 1..MaxPosts : WebhookResolve(i)
    \/ \E i \in 1..MaxPosts : WebhookReject(i)
    \/ Reset

Spec == Init /\ [][Next]_vars

\* every started round trip settles: the effect runs after the first render,
\* the identity lookup and each webhook call resolve or reject
FairSpec ==
    /\ Spec
    /\ WF_vars(FetchIpStart)
    /\ WF_vars(\E r \in Responses : FetchIpResolve(r))
    /\ WF_vars(\E i \in 1..MaxPosts : WebhookResolve(i) \/ WebhookReject(i))

TypeOK ==
    /\ fullName \in Names
    /\ currentIp \in IpFieldValues
    /\ status \in {"idle", "loading_ip", "ready", "submitting", "success", "error"}
    /\ errorMessage \in {JsNull, MsgLookup, MsgName, MsgPolicy, MsgSubmit}
    /\ ipCall \in {"none", "pending", "done"}
    /\ lookups \in 0..1
    /\ Len(inflight) <= MaxPosts
    /\ Len(posts) <= MaxPosts

(* ======================= properties ======================= *)

\* the step is a run of handleRegister from status ready
SubmitFromReady == lastEvent' = "submit" /\ status = "ready"

\* C1: a submit in status ready with a name that is non-empty after trimming
\* and currentIp equal to the office address moves the status to submitting
\* and dispatches exactly one POST whose name is the entered name and whose
\* ip is currentIp; while submitting nothing but the webhook's completion can
\* happen; and a completion without a transport exception moves the status to
\* success and dispatches nothing.
C1_SubmitSucceeds ==
    [][ /\ (SubmitFromReady /\ Trim(fullName) # <<>> /\ StrictEq(currentIp, OFFICE_IP))
            => /\ status' = "submitting"
               /\ Len(posts') = Len(posts) + 1
               /\ SubSeq(posts', 1, Len(posts)) = posts
               /\ posts'[Len(posts')].name = fullName
               /\ posts'[Len(posts')].ip = currentIp
               /\ inflight' = <<posts'[Len(posts')]>>
        /\ status = "submitting" => lastEvent' \in {"webhook_ok", "webhook_fail"}
        /\ (status = "submitting" /\ lastEvent' = "webhook_ok")
            => /\ status' = "success"
               /\ posts' = posts
               /\ inflight' = <<>>
      ]_vars

\* a name with a blank in it was submitted from the office address and the
\* webhook call returned
C1_Witness ==
    /\ status = "success"
    /\ lastEvent = "webhook_ok"
    /\ Len(posts) = 1
    /\ posts[1].name = <<"a", " ">>
    /\ posts[1].ip = OFFICE_IP
    /\ fullName = <<"a", " ">>

\* C2: a submit in status ready with a name that is empty or only whitespace
\* leaves the status ready, sets the name-required message and dispatches no
\* POST, whatever currentIp is.
C2_BlankNameRejected ==
    [][ (SubmitFromReady /\ Trim(fullName) = <<>>)
            => /\ status' = "ready"
               /\ errorMessage' = MsgName
               /\ posts' = posts
               /\ inflight' = inflight
      ]_vars

\* a whitespace-only name was submitted from the office address and rejected
C2_Witness ==
    /\ lastEvent = "submit"
    /\ status = "ready"
    /\ fullName = <<" ">>
    /\ currentIp = OFFICE_IP
    /\ errorMessage = MsgName
    /\ posts = <<>>

\* C3: a submit in status ready with a name that is non-empty after trimming
\* and currentIp different from the office address (or absent) leaves the
\* status ready, sets the network-policy message and dispatches no POST.
C3_WrongNetworkRejected ==
    [][ (SubmitFromReady /\ Trim(fullName) # <<>> /\ currentIp # OFFICE_IP)
            => /\ status' = "ready"
               /\ errorMessage' = MsgPolicy
               /\ posts' = posts
               /\ inflight' = inflight
      ]_vars

\* a valid name was submitted with no address stored and rejected
C3_Witness ==
    /\ lastEvent = "submit"
    /\ status = "ready"
    /\ Trim(fullName) # <<>>
    /\ ~Present(currentIp)
    /\ errorMessage = MsgPolicy
    /\ posts = <<>>

\* C4: once the status is error it is error in every later state.
C4_ErrorIsTerminal == [][status = "error" => status' = "error"]_vars

\* a valid name was submitted after the lookup failed
C4_Witness ==
    /\ status = "error"
    /\ lastEvent = "submit"
    /\ Trim(fullName) # <<>>

\* C5: while the status is error no name edit and no submit can happen, and
\* the error message (the lookup's) is not replaced.
C5_ErrorDisablesSubmit ==
    [][status = "error"
            => /\ lastEvent' \notin {"submit", "edit"}
               /\ errorMessage' = errorMessage
      ]_vars

\* C6 (as stated): currentIp is absent only while the status is loading_ip.
C6_AbsentOnlyWhileLoading == ~Present(currentIp) => status = "loading_ip"

\* C6 (amended): currentIp is absent only if the status is loading_ip, error
\* or ready; it is null in every loading_ip and error state and present in
\* every submitting and success state.
C6_AbsentOnlyBeforeSubmit ==
    /\ ~Present(currentIp) => status \in {"loading_ip", "error", "ready"}
    /\ status \in {"loading_ip", "error"} => currentIp = JsNull
    /\ status \in {"submitting", "success"} => Present(currentIp)

\* a submit passed both checks, so an address is stored
C6_Witness ==
    /\ status = "submitting"
    /\ lastEvent = "submit"
    /\ Present(currentIp)
    /\ Len(inflight) = 1

\* C7: every step that dispatches a POST starts in status ready, ends in
\* status submitting and dispatches one POST; none is dispatched from
\* loading_ip, submitting, success or error.
C7_PostOnlyFromReady ==
    [][posts' # posts
            => /\ status = "ready"
               /\ status' = "submitting"
               /\ lastEvent' = "submit"
               /\ Len(posts') = Len(posts) + 1
      ]_vars

\* a second POST was dispatched after the first one was answered
C7_Witness ==
    /\ status = "submitting"
    /\ lastEvent = "submit"
    /\ Len(posts) = 2
    /\ Len(inflight) = 1

\* C8: when the webhook call fails while the status is submitting, the status
\* becomes ready, the submission message is set, fullName is the name that
\* was submitted, currentIp is unchanged, and a submit would pass both checks
\* again.
C8_TransportFailureKeepsName ==
    [][ (status = "submitting" /\ lastEvent' = "webhook_fail")
            => /\ status' = "ready"
               /\ errorMessage' = MsgSubmit
               /\ fullName' = posts[Len(posts)].name
               /\ currentIp' = currentIp
               /\ Trim(fullName') # <<>>
               /\ StrictEq(currentIp', OFFICE_IP)
      ]_vars

\* the webhook call for a name with a leading blank failed
C8_Witness ==
    /\ lastEvent = "webhook_fail"
    /\ status = "ready"
    /\ errorMessage = MsgSubmit
    /\ fullName = <<" ", "a">>
    /\ posts[Len(posts)].name = fullName
    /\ inflight = <<>>

\* C9: the register-another action runs only from success and yields status
\* ready with an empty fullName, the same currentIp, no identity lookup and no
\* webhook call.
C9_ResetClearsName ==
    [][lastEvent' = "reset"
            => /\ status = "success"
               /\ status' = "ready"
               /\ fullName' = <<>>
               /\ currentIp' = currentIp
               /\ ipCall' = ipCall
               /\ lookups' = lookups
               /\ posts' = posts
               /\ inflight' = inflight
      ]_vars

\* a registration succeeded and the form was reset
C9_Witness ==
    /\ lastEvent = "reset"
    /\ status = "ready"
    /\ fullName = <<>>
    /\ currentIp = OFFICE_IP
    /\ Len(posts) = 1

\* network operations whose promise is pending
InFlight == (IF ipCall = "pending" THEN 1 ELSE 0) + Len(inflight)

\* C10: at most one network operation is in flight in every state, and no
\* submit runs while the status is loading_ip or submitting.
C10_OneCallInFlight ==
    [][ /\ InFlight <= 1
        /\ InFlight' <= 1
        /\ status \in {"loading_ip", "submitting"} => lastEvent' # "submit"
      ]_vars

\* a second webhook call is outstanding, alone, after the first completed
C10_Witness ==
    /\ status = "submitting"
    /\ ipCall = "done"
    /\ Len(posts) = 2
    /\ InFlight = 1

\* C11 (as stated): the lookup's completion yields ready only with a string
\* stored in currentIp, and otherwise yields error with the lookup message.
C11_ReadyOnlyWithStringAddress ==
    [][lastEvent' = "ip_result"
            => IF status' = "ready"
               THEN currentIp'.t = "string"
               ELSE status' = "error" /\ errorMessage' = MsgLookup
      ]_vars

StatusEdges ==
    { <<"loading_ip", "ready">>, <<"loading_ip", "error">>,
      <<"ready", "submitting">>, <<"submitting", "success">>,
      <<"submitting", "ready">>, <<"success", "ready">> }

\* C12: every change of status is one of the six edges loading_ip -> ready,
\* loading_ip -> error, ready -> submitting, submitting -> success,
\* submitting -> ready, success -> ready.
C12_OnlyListedEdges == [][status' # status => <<status, status'>> \in StatusEdges]_vars

\* all of ready -> submitting -> success -> ready -> submitting -> ready ran
C12_Witness ==
    /\ status = "ready"
    /\ lastEvent = "webhook_fail"
    /\ Len(posts) = 2
    /\ fullName # posts[1].name

\* C13: at most one identity lookup is ever issued, it is issued by the
\* startup effect and has been issued whenever the status has left its
\* initial position; no submit, reset or name edit issues one; and once the
\* lookup has completed currentIp never changes.
C13_OneLookup ==
    [][ /\ lookups' <= 1
        /\ ipCall' # "none" => lookups' = 1
        /\ lookups' # lookups => lastEvent = "init" /\ lastEvent' = "fetch_ip"
        /\ lastEvent' \in {"submit", "reset", "edit"} => lookups' = lookups /\ ipCall' = ipCall
        /\ ipCall = "done" => currentIp' = currentIp
      ]_vars

\* after a registration, a reset and an edit the one lookup's address stands
C13_Witness ==
    /\ lookups = 1
    /\ ipCall = "done"
    /\ lastEvent = "edit"
    /\ Len(posts) = 1
    /\ status = "ready"
    /\ errorMessage = JsNull
    /\ currentIp = OFFICE_IP

\* C14: when every started network call settles, loading_ip leads to ready or
\* error and submitting leads to success or ready.
C14_CallsSettle ==
    /\ (status = "loading_ip") ~> (status \in {"ready", "error"})
    /\ (status = "submitting") ~> (status \in {"success", "ready"})

\* the second webhook call settled without an exception
C14_Witness ==
    /\ status = "success"
    /\ lastEvent = "webhook_ok"
    /\ Len(posts) = 2
    /\ inflight = <<>>

\* C15: the error message is absent in every submitting and success state,
\* and in the ready state a reset reaches.
C15_NoErrorWhileSubmitting ==
    [][ /\ status' \in {"submitting", "success"} => errorMessage' = JsNull
        /\ lastEvent' = "reset" => errorMessage' = JsNull
      ]_vars

\* a second registration was reset; any earlier message is gone
C15_Witness ==
    /\ lastEvent = "reset"
    /\ status = "ready"
    /\ errorMessage = JsNull
    /\ Len(posts) = 2

\* C16: every dispatched payload has the office address as ip and a name
\* that is non-empty after trimming.
C16_PayloadsValid ==
    \A i \in 1..Len(posts) :
        /\ posts[i].ip = OFFICE_IP
        /\ Trim(posts[i].name) # <<>>

\* two payloads with different names, both padded with a blank, were sent
C16_Witness ==
    /\ Len(posts) = 2
    /\ posts[1].name = <<"a", " ">>
    /\ posts[2].name = <<" ", "a">>

\* C17: when the completed lookup stored something other than the office
\* address, no POST has been dispatched and the status is ready.
C17_WrongAddressNeverPosts ==
    (ipCall = "done" /\ status # "error" /\ ~StrictEq(currentIp, OFFICE_IP))
        => /\ posts = <<>>
           /\ inflight = <<>>
           /\ status = "ready"

\* a valid name was submitted from another address and refused
C17_Witness ==
    /\ currentIp = OtherIp
    /\ lastEvent = "submit"
    /\ Trim(fullName) # <<>>
    /\ errorMessage = MsgPolicy
    /\ status = "ready"
====
